---- MODULE Spec2Model ----
(***************************************************************************)
(* SmallString<N> (src/SmallString.hpp): a string class that forwards      *)
(* every operation to its one member,                                      *)
(*     boost::container::small_vector<char, N> m_data.                     *)
(* The state of a SmallString is therefore the state of that small_vector: *)
(* where its storage lives, its size, its capacity and the bytes of the    *)
(* storage.  The operators below are the SmallString methods with the      *)
(* small_vector call each one makes written out, following                 *)
(* Boost.Container's vector / small_vector (the releases before the        *)
(* small-buffer-aware shrink_to_fit): growth_factor_60 growth, exact       *)
(* allocation in reserve / assign / shrink_to_fit, steal_resources on a    *)
(* move from heap storage.                                                 *)
(*                                                                         *)
(* Bytes are one-character strings.  Memory that has never been written is *)
(* Undef; it takes a value, any value, at the moment it first becomes part *)
(* of the logical string (only resize(n, default_init) can do that).       *)
(***************************************************************************)
EXTENDS Integers, Sequences, FiniteSets, TLC

VARIABLES b, last, hist, alive, ndebug, pc

vars == <<b, last, hist, alive, ndebug, pc>>

\* ------------------------------------------------------------- bounds
N == 2
MaxCap == 3
MaxStr == 3
ExampleN == 16

NUL == "NUL"
Undef == "?"
Bytes == {NUL, "a"}

Max(x, y) == IF x >= y THEN x ELSE y
Min(x, y) == IF x <= y THEN x ELSE y

SeqsUpTo(k) == UNION {[1..n -> Bytes] : n \in 0..k}
Strs == SeqsUpTo(MaxStr)
Fill(n, c) == [i \in 1..n |-> c]

\* ------------------------------------------------- the small_vector
\* start: "inline" (m_start is the internal storage), "heap", or "null"
\* (m_start is a null pointer, capacity 0).
Mk(start, sz, buf) == [start |-> start, size |-> sz, cap |-> Len(buf), buf |-> buf]
Out(m, k) == [m |-> m, allocs |-> k]

\* operator std::string_view(): {m_data.data(), m_data.size()}
View(x) == SubSeq(x.buf, 1, x.size)
size(x) == x.size
capacity(x) == x.cap
empty(x) == x.size = 0

\* A fresh allocation of cap bytes holding content at its front.
Alloc(content, cap) == content \o Fill(cap - Len(content), Undef)

\* vector::next_capacity<growth_factor_60>(additional)
NextCapacity(x, additional) == Max(x.size + additional, (x.cap * 8) \div 5)

\* vector::assign(first, last)
Assign(x, str) ==
    IF Len(str) > x.cap
    THEN Out(Mk("heap", Len(str), str), 1)
    ELSE Out(Mk(x.start, Len(str), str \o SubSeq(x.buf, Len(str) + 1, x.cap)), 0)

\* SmallString() and SmallString(std::string_view sv), with N = n
Construct(str, n) == Assign(Mk("inline", 0, Fill(n, Undef)), str)

\* insert with the room test off by one: it reallocates when the new bytes
\* fit exactly.
insert_eager(x, p, str) ==
    LET n == Len(str)
        content == SubSeq(x.buf, 1, p) \o str \o SubSeq(x.buf, p + 1, x.size)
    IN IF n < x.cap - x.size \/ n = 0
       THEN Out(Mk(x.start, x.size + n,
                   content \o SubSeq(x.buf, x.size + n + 1, x.cap)), 0)
       ELSE Out(Mk("heap", x.size + n, Alloc(content, NextCapacity(x, n))), 1)

\* insert that puts the new bytes after the tail instead of before it.
insert_swapped(x, p, str) ==
    LET n == Len(str)
        content == SubSeq(x.buf, 1, p) \o SubSeq(x.buf, p + 1, x.size) \o str
    IN IF n <= x.cap - x.size
       THEN Out(Mk(x.start, x.size + n,
                   content \o SubSeq(x.buf, x.size + n + 1, x.cap)), 0)
       ELSE Out(Mk("heap", x.size + n, Alloc(content, NextCapacity(x, n))), 1)

\* m_data.insert(begin() + p, first, last): vector::priv_insert_forward_range
insert(x, p, str) ==
    LET n == Len(str)
        content == SubSeq(x.buf, 1, p) \o str \o SubSeq(x.buf, p + 1, x.size)
    IN IF n <= x.cap - x.size
       THEN Out(Mk(x.start, x.size + n,
                   content \o SubSeq(x.buf, x.size + n + 1, x.cap)), 0)
       ELSE Out(Mk("heap", x.size + n, Alloc(content, NextCapacity(x, n))), 1)

\* append that inserts at begin() instead of begin() + old_size.
append_front(x, str) == insert(x, 0, str)

\* append(str): old_size = size(); m_data.insert(begin() + old_size, ...)
append(x, str) ==
    LET old_size == x.size
    IN insert(x, old_size, str)

\* m_data.push_back(c): vector::emplace_back
push_back(x, c) ==
    IF x.size < x.cap
    THEN Out(Mk(x.start, x.size + 1, [x.buf EXCEPT ![x.size + 1] = c]), 0)
    ELSE Out(Mk("heap", x.size + 1,
                Alloc(View(x) \o <<c>>, NextCapacity(x, 1))), 1)

\* m_data.pop_back(), for a non-empty string
pop_back(x) == Out([x EXCEPT !.size = x.size - 1], 0)

\* clear that gives the storage back.
clear_release(x) == Out(Mk("null", 0, <<>>), 0)

\* m_data.clear()
clear(x) == Out([x EXCEPT !.size = 0], 0)

\* m_data.resize(n, c); resize(n) is resize(n, '\0')
resize(x, n, c) ==
    IF n < x.size
    THEN Out([x EXCEPT !.size = n], 0)
    ELSE insert(x, x.size, Fill(n - x.size, c))

\* The buffers buf can turn out to be once the never-written bytes among
\* lo..hi are read.
Expose(buf, lo, hi) ==
    LET U == {i \in lo..hi : buf[i] = Undef}
    IN { [i \in 1..Len(buf) |-> IF i \in U THEN f[i] ELSE buf[i]]
         : f \in [U -> Bytes] }

\* m_data.resize(n, boost::container::default_init): the new bytes are not
\* written.
ResizeDefaultInit(x, n) ==
    IF n <= x.size
    THEN {Out([x EXCEPT !.size = n], 0)}
    ELSE IF n <= x.cap
    THEN {Out(Mk(x.start, n, bf), 0) : bf \in Expose(x.buf, x.size + 1, n)}
    ELSE {Out(Mk("heap", n, bf), 1)
          : bf \in Expose(Alloc(View(x), NextCapacity(x, n - x.size)),
                          x.size + 1, n)}

\* The caller's operation: it writes Mark over the first k bytes of the
\* buffer it is handed and returns r.
Mark == "a"
Ops(target) == [k : 0..target, r : 0..(target + 1)]
Apply(op, x) ==
    [x EXCEPT !.buf = [i \in 1..Len(x.buf) |-> IF i <= op.k THEN Mark ELSE x.buf[i]]]

\* resize_and_overwrite that leaves out the second resize.
resize_and_overwrite_keep(x, target, op) ==
    { [m |-> Apply(op, o1.m), allocs |-> o1.allocs,
       seen |-> View(o1.m), asserted |-> TRUE]
      : o1 \in ResizeDefaultInit(x, target) }

\* resize_and_overwrite(size, op): two default_init resizes around the call
\* of op, then assert(m_data.size() <= size).
resize_and_overwrite(x, target, op) ==
    UNION { { [m |-> o2.m, allocs |-> o1.allocs + o2.allocs,
               seen |-> View(o1.m), asserted |-> o2.m.size <= target]
              : o2 \in ResizeDefaultInit(Apply(op, o1.m), op.r) }
            : o1 \in ResizeDefaultInit(x, target) }

\* m_data.reserve(n): allocates exactly n when the capacity is smaller
reserve(x, n) ==
    IF x.cap < n
    THEN Out(Mk("heap", x.size, Alloc(View(x), n)), 1)
    ELSE Out(x, 0)

\* shrink_to_fit that halves the capacity instead of fitting it.
shrink_half(x) ==
    IF x.size < x.cap
    THEN Out(Mk("heap", x.size, Alloc(View(x), Max(x.size, x.cap \div 2))), 1)
    ELSE Out(x, 0)

\* m_data.shrink_to_fit(): vector::priv_shrink_to_fit(version_1)
shrink_to_fit(x) ==
    IF x.cap = 0 THEN Out(x, 0)
    ELSE IF x.size = 0 THEN Out(Mk("null", 0, <<>>), 0)
    ELSE IF x.size < x.cap THEN Out(Mk("heap", x.size, View(x)), 1)
    ELSE Out(x, 0)

\* An exception that carries the index.
OutOfRange_pos(pos) == [type |-> "std::out_of_range", what |-> "at", pos |-> pos]

\* The exception at() throws.
OutOfRange(pos) == [type |-> "std::out_of_range", what |-> "at"]

\* at with size() < pos for size() <= pos.
at_off_by_one(x, pos) ==
    IF size(x) < pos
    THEN [ok |-> FALSE, val |-> NUL, err |-> OutOfRange(pos)]
    ELSE [ok |-> TRUE, val |-> IF pos < x.cap THEN x.buf[pos + 1] ELSE Undef,
          err |-> [type |-> "", what |-> ""]]

\* at(pos)
at(x, pos) ==
    IF size(x) <= pos
    THEN [ok |-> FALSE, val |-> NUL, err |-> OutOfRange(pos)]
    ELSE [ok |-> TRUE, val |-> x.buf[pos + 1], err |-> [type |-> "", what |-> ""]]

\* vector_alloc_holder::steal_resources: what the source keeps
Stolen == Mk("null", 0, <<>>)

\* SmallString(SmallString &&) = default: small_vector_base::move_construct_impl
MoveConstruct(x, n) ==
    IF x.start # "inline"
    THEN [dst |-> x, src |-> Stolen, allocs |-> 0]
    ELSE LET o == Construct(View(x), n)
         IN [dst |-> o.m, src |-> clear(x).m, allocs |-> o.allocs]

\* operator=(SmallString &&) = default: vector::priv_move_assign
MoveAssign(d, x) ==
    IF x.start # "inline"
    THEN [dst |-> x, src |-> Stolen, allocs |-> 0]
    ELSE LET o == Assign(d, View(x))
         IN [dst |-> o.m, src |-> clear(x).m, allocs |-> o.allocs]

\* SmallString(SmallString const &) = default
CopyConstruct(x, n) == Construct(View(x), n)

\* operator=(SmallString const &) = default: vector::priv_copy_assign
CopyAssign(d, x) == Assign(d, View(x))

\* operator=(std::string_view sv): m_data = {sv.begin(), sv.end()}, a
\* temporary small_vector move-assigned to m_data
AssignView(d, sv, n) ==
    LET tmp == Construct(sv, n)
        mv == MoveAssign(d, tmp.m)
    IN Out(mv.dst, tmp.allocs + mv.allocs)

\* std::string_view's operator==
ViewEq(v, w) == Len(v) = Len(w) /\ \A i \in 1..Len(v) : v[i] = w[i]

\* Equality that compares only the bytes of the shorter string.
Equal_prefix(x, y) ==
    \A i \in 1..Min(x.size, y.size) : x.buf[i] = y.buf[i]

\* operator==(SmallString const &, SmallString const &)
Equal(x, y) == ViewEq(View(x), View(y))
\* operator==(SmallString const &, std::string_view) and its mirror
EqualView(x, sv) == ViewEq(View(x), sv)
\* operator!=
NotEqual(x, y) == ~Equal(x, y)

\* std::hash<std::string_view>: implementation-defined; here a 16-bit
\* polynomial hash of the bytes of the view.
Ord(c) == IF c = NUL THEN 0 ELSE 97
RECURSIVE HashView(_)
HashView(v) ==
    IF Len(v) = 0 THEN 7
    ELSE (HashView(SubSeq(v, 1, Len(v) - 1)) * 31 + Ord(v[Len(v)]) + 1) % 65536

\* std::hash<SmallString<N>>
Hash(x) == HashView(View(x))

\* ------------------------------------------------------------ actions
Ids == {1, 2}

L(op, id, pos, ret, ok, val, allocs, prev) ==
    [op |-> op, id |-> id, pos |-> pos, ret |-> ret, ok |-> ok, val |-> val,
     allocs |-> allocs, prev |-> prev]

\* The history of buffer 1, kept while hist.on: whether its length has ever
\* exceeded N (peak is the greatest length the operation gave it, which for
\* resize_and_overwrite is the length while op runs), how many heap
\* allocations it has made (2 stands for two or more), whether this state is
\* the one right after the operation that first made its length exceed N,
\* and whether an operation marked excl was used.
\* Nothing is recorded any more (Past) once the length has exceeded N.
Past == [on |-> TRUE, long |-> TRUE, allocs |-> 0, crossed |-> FALSE, excl |-> FALSE]
Track(i, peak, allocs, excl) ==
    IF ~hist.on \/ i # 1 THEN hist
    ELSE IF hist.long THEN Past
    ELSE [on |-> TRUE,
          long |-> peak > N,
          allocs |-> Min(hist.allocs + allocs, 2),
          crossed |-> peak > N,
          excl |-> hist.excl \/ excl]

Free == alive /\ pc = "free"

\* The record of the last operation.  While the history is off only the
\* operations that take two buffers are recorded.
Quiet == L("", 0, 0, 0, TRUE, "", 0, "")
Log(lst) == IF hist.on THEN lst ELSE Quiet

Commit(i, m, allocs, excl, lst) ==
    /\ m.cap <= MaxCap
    /\ b' = [b EXCEPT ![i] = m]
    /\ last' = Log(lst)
    /\ hist' = Track(i, m.size, allocs, excl)
    /\ UNCHANGED <<alive, ndebug, pc>>

PushBack(i) ==
    /\ Free
    /\ \E c \in Bytes :
          LET o == push_back(b[i], c)
          IN Commit(i, o.m, o.allocs, FALSE,
                    L("push_back", i, 0, 0, TRUE, "", 0, ""))

AppendView(i) ==
    /\ Free
    /\ \E str \in Strs :
          LET o == append(b[i], str)
          IN Commit(i, o.m, o.allocs, FALSE,
                    L("append", i, 0, 0, TRUE, "", 0, ""))

Insert(i) ==
    /\ Free
    /\ \E p \in 0..b[i].size, str \in Strs :
          LET o == insert(b[i], p, str)
          IN Commit(i, o.m, o.allocs, FALSE,
                    L("insert", i, p, 0, TRUE, "", o.allocs, ""))

PopBack(i) ==
    /\ Free
    /\ ~empty(b[i])
    /\ LET o == pop_back(b[i])
       IN Commit(i, o.m, o.allocs, FALSE,
                 L("pop_back", i, 0, 0, TRUE, "", 0, ""))

Clear(i) ==
    /\ Free
    /\ LET o == clear(b[i])
       IN Commit(i, o.m, o.allocs, FALSE,
                 L("clear", i, 0, 0, TRUE, "", 0, ""))

Resize(i) ==
    /\ Free
    /\ \E n \in 0..MaxCap, c \in Bytes :
          LET o == resize(b[i], n, c)
          IN Commit(i, o.m, o.allocs, FALSE,
                    L("resize", i, n, 0, TRUE, "", 0, ""))

ResizeAndOverwrite(i) ==
    /\ Free
    /\ \E target \in 0..MaxCap :
         \E op \in Ops(target) :
           \E o \in resize_and_overwrite(b[i], target, op) :
              /\ o.m.cap <= MaxCap
              /\ b' = [b EXCEPT ![i] = o.m]
              /\ last' = Log(L("resize_and_overwrite", i, 0, op.r, o.asserted,
                           "", 0, ""))
              /\ hist' = Track(i, Max(target, o.m.size), o.allocs, op.r > target)
              /\ alive' = (ndebug \/ o.asserted)
              /\ UNCHANGED <<ndebug, pc>>

Reserve(i) ==
    /\ Free
    /\ \E n \in 0..MaxCap :
          LET o == reserve(b[i], n)
          IN Commit(i, o.m, o.allocs, n > N,
                    L("reserve", i, 0, 0, TRUE, "", 0, ""))

ShrinkToFit(i) ==
    /\ Free
    /\ LET o == shrink_to_fit(b[i])
       IN Commit(i, o.m, o.allocs, TRUE,
                 L("shrink_to_fit", i, b[i].cap, 0, TRUE, "", 0,
                   IF last.id = i THEN last.op ELSE ""))

At(i) ==
    /\ Free
    /\ \E pos \in 0..(b[i].size + 1) :
          LET r == at(b[i], pos)
          IN /\ last' = Log(L("at", i, pos, 0, r.ok,
                              IF r.ok THEN r.val ELSE r.err.what, 0, ""))
             /\ UNCHANGED <<b, hist, alive, ndebug, pc>>

\* x = sv
AssignFromView(i) ==
    /\ Free
    /\ \E sv \in Strs :
          LET o == AssignView(b[i], sv, N)
          IN Commit(i, o.m, o.allocs, FALSE,
                    L("assign_view", i, 0, 0, TRUE, "", 0, ""))

\* x = y, y a SmallString just constructed from sv
CopyAssignFromTemp(i) ==
    /\ Free
    /\ \E sv \in Strs :
          LET o == CopyAssign(b[i], Construct(sv, N).m)
          IN Commit(i, o.m, o.allocs, FALSE,
                    L("copy_assign", i, 0, 0, TRUE, "", 0, ""))

\* b[i] = std::move(b[j])
MoveAssignPair(i, j) ==
    /\ Free
    /\ i # j
    /\ LET o == MoveAssign(b[i], b[j])
       IN /\ o.dst.cap <= MaxCap
          /\ b' = [b EXCEPT ![i] = o.dst, ![j] = o.src]
          /\ last' = L("move_assign", i, 0, 0, TRUE, b[j].start, 0, "")
          /\ UNCHANGED <<hist, alive, ndebug, pc>>

\* b[i] is destroyed and constructed anew by SmallString(std::move(b[j]))
MoveConstructPair(i, j) ==
    /\ Free
    /\ i # j
    /\ LET o == MoveConstruct(b[j], N)
       IN /\ b' = [b EXCEPT ![i] = o.dst, ![j] = o.src]
          /\ last' = L("move_construct", i, 0, 0, TRUE, b[j].start, 0, "")
          /\ UNCHANGED <<hist, alive, ndebug, pc>>

\* b[i] = b[j]
CopyAssignPair(i, j) ==
    /\ Free
    /\ i # j
    /\ LET o == CopyAssign(b[i], b[j])
       IN /\ b' = [b EXCEPT ![i] = o.m]
          /\ last' = L("copy_assign", i, 0, 0, TRUE, b[j].start, 0, "")
          /\ UNCHANGED <<hist, alive, ndebug, pc>>

\* b[i] is destroyed and constructed anew by SmallString(b[j])
CopyConstructPair(i, j) ==
    /\ Free
    /\ i # j
    /\ LET o == CopyConstruct(b[j], N)
       IN /\ b' = [b EXCEPT ![i] = o.m]
          /\ last' = L("copy_construct", i, 0, 0, TRUE, b[j].start, 0, "")
          /\ UNCHANGED <<hist, alive, ndebug, pc>>

\* b[i] == b[j]
Compare(i, j) ==
    /\ Free
    /\ i # j
    /\ last' = L("equal", i, 0, 0, Equal(b[i], b[j]), "", 0, "")
    /\ UNCHANGED <<b, hist, alive, ndebug, pc>>

\* ------------------------------------------------------ specifications
\* One SmallString<N>, constructed from any short string, under every
\* operation of the class; buffer 2 stays as constructed.
Init ==
    /\ \E sv \in Strs :
          LET o == Construct(sv, N)
          IN /\ b = [i \in Ids |-> IF i = 1 THEN o.m ELSE Construct(<<>>, N).m]
             /\ last = L("construct", 1, 0, 0, TRUE, "", 0, "")
             /\ hist = [on |-> TRUE, long |-> o.m.size > N, allocs |-> o.allocs,
                        crossed |-> o.m.size > N, excl |-> FALSE]
    /\ alive = TRUE
    /\ ndebug \in BOOLEAN
    /\ pc = "free"

Next ==
    \/ PushBack(1)
    \/ AppendView(1)
    \/ Insert(1)
    \/ PopBack(1)
    \/ Clear(1)
    \/ Resize(1)
    \/ ResizeAndOverwrite(1)
    \/ Reserve(1)
    \/ ShrinkToFit(1)
    \/ At(1)
    \/ AssignFromView(1)
    \/ CopyAssignFromTemp(1)

Spec == Init /\ [][Next]_vars

\* Two SmallString<N> objects, each constructed from any short string, under
\* the operations that take both and the operations on one that change its
\* length, capacity or storage.  insert and resize_and_overwrite are left
\* to Spec: they reach no state of a buffer that these do not.
InitPair ==
    /\ \E sv \in Strs, sw \in Strs :
          b = [i \in Ids |-> IF i = 1 THEN Construct(sv, N).m ELSE Construct(sw, N).m]
    /\ last = Quiet
    /\ hist = [on |-> FALSE, long |-> FALSE, allocs |-> 0, crossed |-> FALSE,
               excl |-> FALSE]
    /\ alive = TRUE
    /\ ndebug = TRUE
    /\ pc = "free"

NextPair ==
    \/ \E i \in Ids : PushBack(i)
    \/ \E i \in Ids : AppendView(i)
    \/ \E i \in Ids : PopBack(i)
    \/ \E i \in Ids : Clear(i)
    \/ \E i \in Ids : Resize(i)
    \/ \E i \in Ids : Reserve(i)
    \/ \E i \in Ids : ShrinkToFit(i)
    \/ \E i \in Ids, j \in Ids : MoveAssignPair(i, j)
    \/ \E i \in Ids, j \in Ids : MoveConstructPair(i, j)
    \/ \E i \in Ids, j \in Ids : CopyAssignPair(i, j)
    \/ \E i \in Ids, j \in Ids : CopyConstructPair(i, j)
    \/ \E i \in Ids, j \in Ids : Compare(i, j)

SpecPair == InitPair /\ [][NextPair]_vars

\* The scenario of the class's intended use, with N = ExampleN: an empty
\* string, append("hello"), append(" world this is long"), resize(n),
\* shrink_to_fit(), then pop_back() until empty and at(0).
Hello == <<"h", "e", "l", "l", "o">>
World == <<" ", "w", "o", "r", "l", "d", " ", "t", "h", "i", "s", " ", "i", "s",
           " ", "l", "o", "n", "g">>

InitExample ==
    /\ b = [i \in Ids |-> Construct(<<>>, ExampleN).m]
    /\ last = L("construct", 1, 0, 0, TRUE, "", 0, "")
    /\ hist = [on |-> FALSE, long |-> FALSE, allocs |-> 0, crossed |-> FALSE,
               excl |-> FALSE]
    /\ alive = TRUE
    /\ ndebug = TRUE
    /\ pc = "hello"

ExStep(o, lst, next) ==
    /\ b' = [b EXCEPT ![1] = o.m]
    /\ last' = lst
    /\ pc' = next
    /\ UNCHANGED <<hist, alive, ndebug>>

ExAppendHello ==
    /\ pc = "hello"
    /\ LET o == append(b[1], Hello)
       IN ExStep(o, L("append", 1, 0, 0, TRUE, "", o.allocs, ""), "world")

ExAppendWorld ==
    /\ pc = "world"
    /\ LET o == append(b[1], World)
       IN ExStep(o, L("append", 1, 0, 0, TRUE, "", o.allocs, ""), "resize")

ExResize ==
    /\ pc = "resize"
    /\ \E n \in 0..b[1].size :
          LET o == resize(b[1], n, NUL)
          IN ExStep(o, L("resize", 1, n, 0, TRUE, "", o.allocs, ""), "shrink")

ExShrinkToFit ==
    /\ pc = "shrink"
    /\ LET o == shrink_to_fit(b[1])
       IN ExStep(o, L("shrink_to_fit", 1, b[1].cap, 0, TRUE, "", o.allocs, ""), "pop")

ExPopBack ==
    /\ pc = "pop"
    /\ ~empty(b[1])
    /\ LET o == pop_back(b[1])
       IN ExStep(o, L("pop_back", 1, 0, 0, TRUE, "", o.allocs, ""), "pop")

ExAt ==
    /\ pc = "pop"
    /\ LET r == at(b[1], 0)
       IN /\ last' = L("at", 1, 0, 0, r.ok, IF r.ok THEN r.val ELSE r.err.what, 0, "")
          /\ UNCHANGED <<b, hist, alive, ndebug, pc>>

NextExample ==
    \/ ExAppendHello
    \/ ExAppendWorld
    \/ ExResize
    \/ ExShrinkToFit
    \/ ExPopBack
    \/ ExAt

SpecExample == InitExample /\ [][NextExample]_vars

\* ------------------------------------------------------------- claims
Positions == 0..(MaxCap + 1)
Other(i) == 3 - i

\* What every small_vector state satisfies.
Valid(x) ==
    /\ x.start \in {"inline", "heap", "null"}
    /\ x.size \in 0..x.cap
    /\ Len(x.buf) = x.cap
    /\ (x.start = "null") = (x.cap = 0)
    /\ \A i \in 1..x.size : x.buf[i] # Undef

Moves(i, j) == {MoveAssign(b[i], b[j]), MoveConstruct(b[j], N)}

\* What C2 says of every move, whatever its source.
C2_Common(x, o) ==
    /\ o.dst.size = x.size
    /\ View(o.dst) = View(x)
    /\ (x.start = "heap" =>
           /\ o.dst.start = "heap" /\ o.dst.buf = x.buf /\ o.dst.cap = x.cap
           /\ o.allocs = 0)
    /\ (x.start = "inline" =>
           /\ o.src.size = 0 /\ o.src.start = "inline" /\ o.src.cap = N)
    /\ Valid(o.src) /\ Valid(o.dst) /\ empty(o.src)
    /\ ~at(o.src, 0).ok
    /\ \A c \in Bytes : View(push_back(o.src, c).m) = <<c>>
    /\ \A str \in Strs : View(append(o.src, str).m) = str

\* C2, as stated: a move gives the destination the source's length and
\* bytes; a heap source hands over its buffer without an allocation and is
\* reset to the empty inline state (length 0, inline, capacity N); an inline
\* source is copied from and its length becomes 0; the source stays usable.
C2_Move ==
    \A i \in Ids : \A o \in Moves(i, Other(i)) :
        /\ C2_Common(b[Other(i)], o)
        /\ (b[Other(i)].start = "heap" =>
               /\ o.src.size = 0 /\ o.src.start = "inline" /\ o.src.cap = N)

\* What the moves do instead: the same, except that a heap source is left
\* with length 0, capacity 0 and no storage at all, neither inline nor heap.
MoveAsBuilt ==
    \A i \in Ids : \A o \in Moves(i, Other(i)) :
        /\ C2_Common(b[Other(i)], o)
        /\ (b[Other(i)].start = "heap" =>
               /\ o.src.size = 0 /\ o.src.start = "null" /\ o.src.cap = 0)

\* A move assignment has just taken a non-empty heap buffer.
MoveAsBuiltWitness ==
    /\ last.op = "move_assign" /\ last.val = "heap"
    /\ b[last.id].start = "heap" /\ b[last.id].size > 0
    /\ b[Other(last.id)] = Stolen

\* C3 in a state: at(pos) fails with std::out_of_range exactly when
\* pos >= size(), and otherwise returns the byte of the string at pos.
C3_AtState ==
    /\ \A pos \in Positions :
          LET r == at(b[1], pos)
          IN /\ r.ok = (pos < b[1].size)
             /\ (r.ok => r.val = View(b[1])[pos + 1])
             /\ (~r.ok => r.err.type = "std::out_of_range")
    /\ (last.op = "at" => last.ok = (last.pos < b[1].size))

\* C3 in a step: a failing at(pos) changes nothing of the buffer.
C3_AtStep == (last'.op = "at" /\ ~last'.ok) => b' = b

\* C3: checked access fails exactly when pos >= length, returns the byte at
\* pos otherwise, and a failing access leaves the buffer as it was.
C3_At == [](C3_AtState) /\ [][C3_AtStep]_vars

\* at(0) has just failed on a heap buffer that was emptied.
C3_Witness ==
    /\ last.op = "at" /\ ~last.ok /\ last.pos = 0
    /\ empty(b[1]) /\ b[1].start = "heap"

\* C4: resize_and_overwrite(target, op) hands op a buffer of target bytes
\* whose first min(old length, target) bytes are the old ones, and leaves
\* the length at the r that op returned; when r <= target the length is at
\* most target and the string is the first r bytes as op left them.
C4_ResizeAndOverwrite ==
    /\ \A target \in 0..MaxCap : \A op \in Ops(target) :
          \A o \in resize_and_overwrite(b[1], target, op) :
             /\ size(o.m) = op.r
             /\ Len(o.seen) = target
             /\ \A i \in 1..Min(b[1].size, target) : o.seen[i] = b[1].buf[i]
             /\ (op.r <= target =>
                    /\ size(o.m) <= target
                    /\ o.asserted
                    /\ \A i \in 1..op.r :
                          View(o.m)[i] = IF i <= op.k THEN Mark ELSE o.seen[i])
    /\ (last.op = "resize_and_overwrite" => b[1].size = last.ret)

\* resize_and_overwrite has just returned with a length below the capacity.
C4_Witness ==
    /\ last.op = "resize_and_overwrite" /\ last.ok /\ alive
    /\ last.ret > 0 /\ b[1].size = last.ret /\ b[1].size < b[1].cap

\* The outcomes of the operations C5 lists, from buffer x.
Grown(x) ==
    {push_back(x, c).m : c \in Bytes}
    \cup {append(x, str).m : str \in Strs}
    \cup {insert(x, p, str).m : p \in 0..x.size, str \in Strs}
    \cup {pop_back(x).m : k \in {1} \cap 1..x.size}
    \cup {resize(x, n, c).m : n \in Positions, c \in Bytes}
    \cup UNION {UNION {{o.m : o \in resize_and_overwrite(x, target, op)}
                       : op \in Ops(target)} : target \in 0..MaxCap}
    \cup {reserve(x, n).m : n \in Positions}
    \cup {clear(x).m}

\* C5: push_back, append, insert, pop_back, clear, resize,
\* resize_and_overwrite and reserve never lower the capacity and never take
\* a heap buffer off the heap; clear() and a truncating resize leave the
\* capacity as it was.
C5_CapacityKept ==
    /\ \A y \in Grown(b[1]) :
          /\ y.cap >= b[1].cap
          /\ (b[1].start = "heap" => y.start = "heap")
    /\ clear(b[1]).m.cap = b[1].cap
    /\ \A n \in 0..b[1].size, c \in Bytes : resize(b[1], n, c).m.cap = b[1].cap

\* clear() has just emptied a heap buffer, which keeps its capacity.
C5_Witness ==
    /\ last.op = "clear"
    /\ b[1].start = "heap" /\ b[1].cap > N /\ empty(b[1])

\* C6: shrink_to_fit() keeps the length and the bytes, leaves
\* capacity >= length, and a second shrink_to_fit() right after it leaves
\* the capacity and the storage mode of the first.
C6_ShrinkToFit ==
    /\ LET o == shrink_to_fit(b[1])
           o2 == shrink_to_fit(o.m)
       IN /\ o.m.size = b[1].size
          /\ View(o.m) = View(b[1])
          /\ o.m.cap >= o.m.size
          /\ o2.m.cap = o.m.cap
          /\ o2.m.start = o.m.start
          /\ o2.allocs = 0
    /\ ((last.op = "shrink_to_fit" /\ last.prev = "shrink_to_fit")
           => b[1].cap = last.pos)

\* shrink_to_fit() has just run a second time in a row on a non-empty string.
C6_Witness ==
    /\ last.op = "shrink_to_fit" /\ last.prev = "shrink_to_fit"
    /\ ~empty(b[1]) /\ b[1].cap = last.pos

\* The strings of x and y have the same length and the same bytes.
SameBytes(x, y) ==
    /\ x.size = y.size
    /\ \A k \in 1..x.size : x.buf[k] = y.buf[k]

\* C7: two buffers are equal exactly when their lengths and bytes are, a
\* buffer equals a byte view exactly when its string is that view,
\* operator!= is the negation of operator==, and equal buffers hash equally;
\* none of it depends on where the storage is, on the capacity or on the
\* bytes beyond the length.
C7_Equality ==
    /\ \A i \in Ids, j \in Ids :
          /\ Equal(b[i], b[j]) = SameBytes(b[i], b[j])
          /\ NotEqual(b[i], b[j]) = ~Equal(b[i], b[j])
          /\ (Equal(b[i], b[j]) => Hash(b[i]) = Hash(b[j]))
    /\ \A i \in Ids, sv \in Strs :
          EqualView(b[i], sv) = (b[i].size = Len(sv) /\
                                 \A k \in 1..Len(sv) : b[i].buf[k] = sv[k])
    /\ (last.op = "equal" => last.ok = SameBytes(b[1], b[2]))

\* operator== has just found an inline and a heap buffer equal, with
\* different capacities and different bytes beyond the length.
C7_Witness ==
    /\ last.op = "equal" /\ last.ok
    /\ b[1].start = "inline" /\ b[2].start = "heap"
    /\ b[1].size > 0 /\ b[1].cap # b[2].cap
    /\ b[1].cap > b[1].size /\ b[2].cap > b[2].size
    /\ b[1].buf[b[1].size + 1] # b[2].buf[b[2].size + 1]

\* C8, as stated: in the scenario with N = 16, after append("hello") the
\* length is 5 and the storage inline; after append(" world this is long")
\* the storage is on the heap, the length is 25 and the string is
\* "hello world this is long".
C8_Example ==
    /\ (pc = "world" =>
           /\ b[1].size = 5 /\ b[1].start = "inline" /\ View(b[1]) = Hello)
    /\ (pc = "resize" =>
           /\ b[1].start = "heap" /\ b[1].size = 25
           /\ View(b[1]) = Hello \o World)

\* C8, amended: the same with length 24, the length of
\* "hello world this is long".
C8_ExampleAmended ==
    /\ (pc = "world" =>
           /\ b[1].size = 5 /\ b[1].start = "inline" /\ View(b[1]) = Hello)
    /\ (pc = "resize" =>
           /\ b[1].start = "heap" /\ b[1].size = 24
           /\ View(b[1]) = Hello \o World)

\* The second append has just promoted the buffer.
C8_Witness ==
    /\ pc = "resize" /\ last.op = "append" /\ last.allocs = 1
    /\ b[1].start = "heap" /\ b[1].cap > ExampleN

\* C9: insert(p, str) makes the length old length + k, keeps the bytes
\* before p, puts str at p and the old bytes from p on after it, whether or
\* not it reallocates; append(str) is insert at the length, and
\* push_back(c) is append of the one byte c.
C9_Insert ==
    /\ \A p \in 0..b[1].size, str \in Strs :
          LET o == insert(b[1], p, str)
              k == Len(str)
              old == View(b[1])
              new == View(o.m)
          IN /\ o.m.size = b[1].size + k
             /\ \A i \in 1..p : new[i] = old[i]
             /\ \A i \in 1..k : new[p + i] = str[i]
             /\ \A i \in (p + 1)..b[1].size : new[i + k] = old[i]
             /\ Valid(o.m)
    /\ \A str \in Strs : append(b[1], str) = insert(b[1], b[1].size, str)
    /\ \A c \in Bytes : push_back(b[1], c) = append(b[1], <<c>>)

\* insert has just put bytes inside the string and moved it to the heap.
C9_Witness ==
    /\ last.op = "insert" /\ last.allocs = 1
    /\ last.pos > 0 /\ last.pos < b[1].size - 1
    /\ b[1].start = "heap" /\ b[1].size > N

\* C10, as stated: the error of a failing at(pos) carries pos, so two
\* failing calls with different indices raise different errors.
C10_ErrorCarriesIndex ==
    \A p \in Positions, q \in Positions :
        (p # q /\ ~at(b[1], p).ok /\ ~at(b[1], q).ok)
            => at(b[1], p).err # at(b[1], q).err

\* C10, amended: the error of a failing at(pos) is std::out_of_range with
\* the message "at" and nothing else: it is the same for every index.
C10_ErrorIsFixed ==
    /\ \A p \in Positions :
          ~at(b[1], p).ok
              => at(b[1], p).err = [type |-> "std::out_of_range", what |-> "at"]
    /\ ((last.op = "at" /\ ~last.ok) => last.val = "at")

\* at(pos) has just failed for an index beyond the length.
C10_Witness ==
    /\ last.op = "at" /\ ~last.ok /\ last.val = "at"
    /\ last.pos > b[1].size

====
